---- MODULE Spec2Model ----
(***************************************************************************)
(* Mandelbrot renderer (mandelbrot_set/src/main.rs): the coordinate mapper *)
(* pixel_to_point, the escape-time evaluator escape_time, the renderer     *)
(* render and the two drivers run_sequentially and run_parallelly.         *)
(*                                                                         *)
(* f64 is modelled as a binary floating-point format of the same shape     *)
(* with fewer bits: a value is an integer k standing for k / 2^FracBits,   *)
(* every arithmetic result is rounded to Prec significant bits, ties to    *)
(* even, with gradual underflow below 2^-FracBits and no upper exponent    *)
(* limit (no value of the model gets near an overflow).                    *)
(***************************************************************************)
EXTENDS Integers, Sequences, FiniteSets, TLC

\* ------------------------------------------------------------------ bounds
Prec == 6
FracBits == 6
MaxWidth == 2
MaxHeight == 9
MaxLimit == 6

\* --------------------------------------------------------- program constants
LIMIT_OF_ITERATION == 255
threads == 8

RECURSIVE Pow2(_)
Pow2(n) == IF n = 0 THEN 1 ELSE 2 * Pow2(n - 1)

\* 1.0 in grid units, and the first magnitude that needs more than Prec bits.
One == Pow2(FracBits)
MantLimit == Pow2(Prec)

\* LIMIT_TO_CALL_IT_OFF_TO_INFINITY = 4.0, in grid units.
LIMIT_TO_CALL_IT_OFF_TO_INFINITY == 4 * One

Abs(x) == IF x < 0 THEN -x ELSE x

\* ------------------------------------------------------- f64 arithmetic
\* The spacing of representable values around a / den (a >= 0, den > 0).
RECURSIVE Quantum(_, _)
Quantum(a, den) == IF a < MantLimit * den THEN 1 ELSE 2 * Quantum(a, 2 * den)

\* n + r/d rounded to the nearest integer, ties to even.
RoundHalfEven(n, r, d) ==
  IF 2 * r > d \/ (2 * r = d /\ n % 2 = 1) THEN n + 1 ELSE n

RoundMag(a, d, q) == RoundHalfEven(a \div d, a % d, d) * q

\* The representable value nearest to the rational num / den (grid units).
Round(num, den) ==
  IF num < 0 THEN -RoundMag(-num, den * Quantum(-num, den), Quantum(-num, den))
  ELSE RoundMag(num, den * Quantum(num, den), Quantum(num, den))

FAdd(a, b) == Round(a + b, 1)
FSub(a, b) == Round(a - b, 1)
FMul(a, b) == Round(a * b, One)
FDiv(a, b) == IF b < 0 THEN Round(-(a * One), -b) ELSE Round(a * One, b)
\* `n as f64` for a usize n.
AsF64(n) == Round(n * One, 1)

\* ------------------------------------------------------ num::Complex<f64>
Complex(re, im) == [re |-> re, im |-> im]

norm_sqr(z) == FAdd(FMul(z.re, z.re), FMul(z.im, z.im))

ComplexMul(a, b) ==
  Complex(FSub(FMul(a.re, b.re), FMul(a.im, b.im)),
          FAdd(FMul(a.re, b.im), FMul(a.im, b.re)))

ComplexAdd(a, b) == Complex(FAdd(a.re, b.re), FAdd(a.im, b.im))

\* ------------------------------------------------------------ Option<usize>
None == [tag |-> "None"]
Some(v) == [tag |-> "Some", val |-> v]
\* A call that has not returned yet.
Pending == [tag |-> "Pending"]

\* ----------------------------------------------------------- escape_time
\* Mutant of EscapeIteration: z is updated before it is tested.
EscapeIteration_update_first(c, limit, i, z) ==
  IF i >= limit THEN [i |-> i, z |-> z, ret |-> None]
  ELSE IF norm_sqr(ComplexAdd(ComplexMul(z, z), c)) > LIMIT_TO_CALL_IT_OFF_TO_INFINITY
       THEN [i |-> i, z |-> ComplexAdd(ComplexMul(z, z), c), ret |-> Some(i)]
       ELSE [i |-> i + 1, z |-> ComplexAdd(ComplexMul(z, z), c), ret |-> Pending]

\* Mutant of EscapeIteration: the threshold test is >= instead of >.
EscapeIteration_at_threshold(c, limit, i, z) ==
  IF i >= limit THEN [i |-> i, z |-> z, ret |-> None]
  ELSE IF norm_sqr(z) >= LIMIT_TO_CALL_IT_OFF_TO_INFINITY
       THEN [i |-> i, z |-> z, ret |-> Some(i)]
       ELSE [i |-> i + 1, z |-> ComplexAdd(ComplexMul(z, z), c), ret |-> Pending]

\* One trip through `for i in 0..limit`: leave the loop (None), return
\* Some(i), or z = z * z + c and go on with i + 1.
EscapeIteration(c, limit, i, z) ==
  IF i >= limit THEN [i |-> i, z |-> z, ret |-> None]
  ELSE IF norm_sqr(z) > LIMIT_TO_CALL_IT_OFF_TO_INFINITY
       THEN [i |-> i, z |-> z, ret |-> Some(i)]
       ELSE [i |-> i + 1, z |-> ComplexAdd(ComplexMul(z, z), c), ret |-> Pending]

\* n trips through the loop from loop state st, stopping at a return.
RECURSIVE EscapeLoop(_, _, _, _)
EscapeLoop(c, limit, st, n) ==
  IF st.ret # Pending \/ n = 0 THEN st
  ELSE IF n = 1 THEN EscapeIteration(c, limit, st.i, st.z)
  ELSE EscapeLoop(c, limit, EscapeLoop(c, limit, st, n \div 2), n - (n \div 2))

\* Mutant of escape_run: z starts at c instead of 0.
escape_run_from_c(c, limit) ==
  EscapeLoop(c, limit, [i |-> 0, z |-> c, ret |-> Pending], limit + 1)

\* The loop state escape_time returns from: z starts at 0, and limit + 1 trips
\* cover the limit iterations and the loop's exit.
escape_run(c, limit) ==
  EscapeLoop(c, limit, [i |-> 0, z |-> Complex(0, 0), ret |-> Pending], limit + 1)

escape_time(c, limit) == escape_run(c, limit).ret

\* --------------------------------------------------------- pixel_to_point
\* Mutant of pixel_to_point: both steps are taken over bounds.1.
pixel_to_point_one_bound(bounds, pixel, upper_left, lower_right) ==
  Complex(
    FAdd(upper_left.re,
         FMul(AsF64(pixel[1]),
              FDiv(FSub(lower_right.re, upper_left.re), AsF64(bounds[2])))),
    FSub(upper_left.im,
         FMul(AsF64(pixel[2]),
              FDiv(FSub(upper_left.im, lower_right.im), AsF64(bounds[2])))))

\* bounds and pixel are pairs <<.0, .1>>.
pixel_to_point(bounds, pixel, upper_left, lower_right) ==
  Complex(
    FAdd(upper_left.re,
         FMul(AsF64(pixel[1]),
              FDiv(FSub(lower_right.re, upper_left.re), AsF64(bounds[1])))),
    FSub(upper_left.im,
         FMul(AsF64(pixel[2]),
              FDiv(FSub(upper_left.im, lower_right.im), AsF64(bounds[2])))))

\* ------------------------------------------------------------------ render
\* A call of render: its slice is pixels[off+1 .. off+len] of the buffer.
Frame(off, len, top, bounds, upper_left, lower_right) ==
  [off |-> off, len |-> len, top |-> top, bounds |-> bounds,
   upper_left |-> upper_left, lower_right |-> lower_right,
   row |-> 0, status |-> "called", cause |-> "none", log |-> <<>>]

\* slice::chunks_mut(size) on a slice of length len: <<off, len>> of each chunk.
chunks_mut(len, size) ==
  [j \in 1..((len + size - 1) \div size) |->
     <<(j - 1) * size,
       IF j * size <= len THEN size ELSE len - (j - 1) * size>>]

\* Mutant of rows_per_band: the rounded-up quotient.
rows_per_band_ceil(height) == (height + threads - 1) \div threads

rows_per_band(height) == (height \div threads) + 1

\* Mutant of Band: every band is given rows_per_band rows, the last one too.
Band_full_rows(bounds, upper_left, lower_right, i, chunk) ==
  Frame(chunk[1], chunk[2], rows_per_band(bounds[2]) * i,
        <<bounds[1], rows_per_band(bounds[2])>>,
        pixel_to_point(bounds, <<0, rows_per_band(bounds[2]) * i>>,
                       upper_left, lower_right),
        pixel_to_point(bounds,
                       <<bounds[1], rows_per_band(bounds[2]) * (i + 1)>>,
                       upper_left, lower_right))

\* The band handed to the (i+1)-th spawned closure (i counts from 0).
Band(bounds, upper_left, lower_right, i, chunk) ==
  Frame(chunk[1], chunk[2], rows_per_band(bounds[2]) * i,
        <<bounds[1], chunk[2] \div bounds[1]>>,
        pixel_to_point(bounds, <<0, rows_per_band(bounds[2]) * i>>,
                       upper_left, lower_right),
        pixel_to_point(bounds,
                       <<bounds[1],
                         rows_per_band(bounds[2]) * i + (chunk[2] \div bounds[1])>>,
                       upper_left, lower_right))

Bands(bounds, upper_left, lower_right) ==
  [j \in DOMAIN chunks_mut(bounds[1] * bounds[2], rows_per_band(bounds[2]) * bounds[1]) |->
     Band(bounds, upper_left, lower_right, j - 1,
          chunks_mut(bounds[1] * bounds[2], rows_per_band(bounds[2]) * bounds[1])[j])]

\* ------------------------------------------------------------------ inputs
Rect(ulre, ulim, lrre, lrim) ==
  [upper_left |-> Complex(ulre * One, ulim * One),
   lower_right |-> Complex(lrre * One, lrim * One)]

Rects == {Rect(-1, 2, 1, -1), Rect(-2, 1, 1, -1)}

ProgramArgs ==
  [bounds : (1..MaxWidth) \X (1..MaxHeight), rect : Rects, heuristics : BOOLEAN]

\* Every call of render the drivers can make.
DriverFrames ==
  UNION {{Frame(0, a.bounds[1] * a.bounds[2], 0, a.bounds,
                a.rect.upper_left, a.rect.lower_right)}
         \cup {Bands(a.bounds, a.rect.upper_left, a.rect.lower_right)[j] :
                 j \in DOMAIN Bands(a.bounds, a.rect.upper_left, a.rect.lower_right)} :
         a \in {b \in ProgramArgs : b.heuristics}}

FramePoints(f) ==
  {pixel_to_point(f.bounds, <<column, row>>, f.upper_left, f.lower_right) :
     column \in 0..(f.bounds[1] - 1), row \in 0..(f.bounds[2] - 1)}

\* escape_time(point, LIMIT_OF_ITERATION), evaluated once per plane point.
EscapeTable ==
  [c \in UNION {FramePoints(f) : f \in DriverFrames} |->
     escape_time(c, LIMIT_OF_ITERATION)]

EscapeOf(point) ==
  IF point \in DOMAIN EscapeTable THEN EscapeTable[point]
  ELSE escape_time(point, LIMIT_OF_ITERATION)

\* `x as u8`.
AsU8(n) == n % 256

\* The byte render stores for an escape result.
Intensity(escape) ==
  IF escape = None THEN 0 ELSE AsU8(LIMIT_OF_ITERATION - escape.val)

PixelEscape(f, column, row) ==
  EscapeOf(pixel_to_point(f.bounds, <<column, row>>, f.upper_left, f.lower_right))

\* Mutant of PixelIndex: column-major.
PixelIndex_column_major(f, column, row) == (column * f.bounds[2]) + row

\* Slice index written for (column, row).
PixelIndex(f, column, row) == (row * f.bounds[1]) + column

\* ------------------------------------------------------------------- state
VARIABLES
  args,     \* main's parsed arguments: bounds, the plane rectangle, the mode flag
  pc,       \* where the driver is
  pixels,   \* the pixel buffer (1-based: slice index k is pixels[k + 1])
  frames,   \* the calls of render in progress or finished
  file,     \* the image write_image has written, NoFile before
  counts,   \* every result render has received from escape_time
  probe     \* a single call of a pure function, for its own specification

vars == <<args, pc, pixels, frames, file, counts, probe>>

NoFile == [tag |-> "NoFile"]
NoProbe == [fn |-> "none"]
NoArgs == [tag |-> "NoArgs"]

Zeros(n) == [k \in 1..n |-> 0]

Finished(t) == frames[t].status \in {"returned", "panicked"}

\* ----------------------------------------------------------------- drivers
\* main after parsing: one of the two drivers runs, on the arguments given.
Init ==
  /\ args \in ProgramArgs
  /\ pc = "main"
  /\ pixels = <<>>
  /\ frames = <<>>
  /\ file = NoFile
  /\ counts = {}
  /\ probe = NoProbe

\* run_sequentially up to its call of render.
run_sequentially ==
  /\ pc = "main"
  /\ ~args.heuristics
  /\ pixels' = Zeros(args.bounds[1] * args.bounds[2])
  /\ frames' = <<Frame(0, args.bounds[1] * args.bounds[2], 0, args.bounds,
                       args.rect.upper_left, args.rect.lower_right)>>
  /\ pc' = "render"
  /\ UNCHANGED <<args, file, counts, probe>>

\* run_sequentially once render is over: on to write_image, unless render
\* panicked.
render_returned ==
  /\ pc = "render"
  /\ Finished(1)
  /\ pc' = IF frames[1].status = "returned" THEN "write" ELSE "panicked"
  /\ UNCHANGED <<args, pixels, frames, file, counts, probe>>

\* run_parallelly up to the end of the spawn loop: the buffer is cut into
\* bands and one closure is spawned per band. chunks_mut panics on a chunk
\* size of 0.
run_parallelly ==
  /\ pc = "main"
  /\ args.heuristics
  /\ pixels' = Zeros(args.bounds[1] * args.bounds[2])
  /\ IF rows_per_band(args.bounds[2]) * args.bounds[1] = 0
     THEN /\ pc' = "panicked"
          /\ frames' = <<>>
     ELSE /\ pc' = "scope"
          /\ frames' = Bands(args.bounds, args.rect.upper_left, args.rect.lower_right)
  /\ UNCHANGED <<args, file, counts, probe>>

\* Mutant of scope_join: the result of the scope is dropped, not unwrapped.
scope_join_result_dropped ==
  /\ pc = "scope"
  /\ \A t \in DOMAIN frames : Finished(t)
  /\ pc' = "write"
  /\ UNCHANGED <<args, pixels, frames, file, counts, probe>>

\* crossbeam::scope returns when every spawned thread has ended: Err if one
\* of them panicked, which unwrap turns into a panic of the driver.
scope_join ==
  /\ pc = "scope"
  /\ \A t \in DOMAIN frames : Finished(t)
  /\ pc' = IF \E t \in DOMAIN frames : frames[t].status = "panicked"
           THEN "panicked" ELSE "write"
  /\ UNCHANGED <<args, pixels, frames, file, counts, probe>>

write_image ==
  /\ pc = "write"
  /\ file' = [tag |-> "File", pixels |-> pixels, bounds |-> args.bounds]
  /\ pc' = "done"
  /\ UNCHANGED <<args, pixels, frames, counts, probe>>

\* ------------------------------------------------------------------ render
\* Mutant of AssertFails: no assertion.
AssertFails_never(f) == FALSE

\* The assertion at the entry of render.
AssertFails(f) == f.len # f.bounds[1] * f.bounds[2]

\* The columns of the current row whose slice index is in range: the row is
\* written in column order up to the first index out of range, where the
\* indexing panics.
ColumnsWritten(f) ==
  IF AssertFails(f) \/ f.row >= f.bounds[2] THEN {}
  ELSE {column \in 0..(f.bounds[1] - 1) : PixelIndex(f, column, f.row) < f.len}

IndexPanics(f) ==
  /\ ~AssertFails(f)
  /\ f.row < f.bounds[2]
  /\ ColumnsWritten(f) # 0..(f.bounds[1] - 1)

RowLog(f) ==
  [k \in 1..Cardinality(ColumnsWritten(f)) |-> PixelIndex(f, k - 1, f.row)]

\* The column of the current row that buffer position k (1-based) holds.
ColumnAt(f, k) == k - 1 - f.off - (f.row * f.bounds[1])

\* render from where it stands to the end of the next iteration of
\* `for row in 0..bounds.1`, its column loop included: from the call, the
\* assertion comes first, and a call with no row returns at once.
render_row(t) ==
  /\ t \in DOMAIN frames
  /\ ~Finished(t)
  /\ pixels' =
       [k \in DOMAIN pixels |->
          IF ColumnAt(frames[t], k) \in ColumnsWritten(frames[t])
          THEN Intensity(PixelEscape(frames[t], ColumnAt(frames[t], k), frames[t].row))
          ELSE pixels[k]]
  /\ counts' = counts \cup
       {PixelEscape(frames[t], column, frames[t].row) :
          column \in ColumnsWritten(frames[t])}
  /\ frames' = [frames EXCEPT
       ![t].log = @ \o RowLog(frames[t]),
       ![t].row = IF ColumnsWritten(frames[t]) = 0..(frames[t].bounds[1] - 1)
                     /\ frames[t].row < frames[t].bounds[2]
                  THEN @ + 1 ELSE @,
       ![t].status =
         IF AssertFails(frames[t]) \/ IndexPanics(frames[t]) THEN "panicked"
         ELSE IF frames[t].row + 1 >= frames[t].bounds[2] THEN "returned"
         ELSE "running",
       ![t].cause =
         IF AssertFails(frames[t]) THEN "assert"
         ELSE IF IndexPanics(frames[t]) THEN "index" ELSE "none"]
  /\ UNCHANGED <<args, pc, file, probe>>

\* A band's thread dies in the middle of its computation for a reason outside
\* render (the failure the join has to propagate).
band_fault(t) ==
  /\ pc = "scope"
  /\ t \in DOMAIN frames
  /\ ~Finished(t)
  /\ frames' = [frames EXCEPT ![t].status = "panicked", ![t].cause = "fault"]
  /\ UNCHANGED <<args, pc, pixels, file, counts, probe>>

Next ==
  \/ run_sequentially
  \/ render_returned
  \/ run_parallelly
  \/ scope_join
  \/ write_image
  \/ \E t \in 1..threads : render_row(t)
  \/ \E t \in 1..threads : band_fault(t)

Spec == Init /\ [][Next]_vars
\* ------------------------------------------- render, called on any buffer
Fills == {0, 255}

InitRender ==
  /\ args = NoArgs
  /\ pc = "unit"
  /\ file = NoFile
  /\ counts = {}
  /\ \E bounds \in (0..MaxWidth) \X (0..MaxHeight), rect \in Rects,
        len \in 0..((MaxWidth * MaxHeight) + 1), fill \in Fills :
       /\ pixels = [k \in 1..len |-> fill]
       /\ frames = <<Frame(0, len, 0, bounds, rect.upper_left, rect.lower_right)>>
       /\ probe = [fn |-> "render", before |-> [k \in 1..len |-> fill]]

NextRender == \E t \in {1} : render_row(t)

SpecRender == InitRender /\ [][NextRender]_vars

\* ------------------------------------------------- escape_time, called alone
Quarter == One \div 4

EscapePoints ==
  {Complex(a * Quarter, b * Quarter) : a, b \in (-8)..8} \cup {Complex(5 * One, 5 * One)}

Limits == (0..MaxLimit) \cup {LIMIT_OF_ITERATION}

InitEscape ==
  /\ args = NoArgs
  /\ pc = "unit"
  /\ pixels = <<>>
  /\ frames = <<>>
  /\ file = NoFile
  /\ counts = {}
  /\ \E c \in EscapePoints, limit \in Limits :
       probe = [fn |-> "escape_time", c |-> c, limit |-> limit,
                ret |-> Pending, i |-> 0, z |-> Complex(0, 0)]

\* The call returned, with the loop variables as the return left them.
EscapeReturned(p, st) == [p EXCEPT !.ret = st.ret, !.i = st.i, !.z = st.z]

call_escape_time ==
  /\ probe.fn = "escape_time"
  /\ probe.ret = Pending
  /\ probe' = EscapeReturned(probe, escape_run(probe.c, probe.limit))
  /\ UNCHANGED <<args, pc, pixels, frames, file, counts>>

SpecEscape == InitEscape /\ [][call_escape_time]_vars

\* ---------------------------------------------- pixel_to_point, called alone
Corners == {(-2) * One, -One, 0, One}

InitMap ==
  /\ args = NoArgs
  /\ pc = "unit"
  /\ pixels = <<>>
  /\ frames = <<>>
  /\ file = NoFile
  /\ counts = {}
  /\ \E bounds \in (1..MaxWidth) \X (1..MaxHeight),
        ulre \in Corners, ulim \in Corners, lrre \in Corners, lrim \in Corners :
       \E pixel \in (0..bounds[1]) \X (0..bounds[2]) :
         probe = [fn |-> "pixel_to_point", bounds |-> bounds, pixel |-> pixel,
                  upper_left |-> Complex(ulre, ulim),
                  lower_right |-> Complex(lrre, lrim), ret |-> Pending]

call_pixel_to_point ==
  /\ probe.fn = "pixel_to_point"
  /\ probe.ret = Pending
  /\ probe' = [probe EXCEPT !.ret =
       pixel_to_point(probe.bounds, probe.pixel, probe.upper_left, probe.lower_right)]
  /\ UNCHANGED <<args, pc, pixels, frames, file, counts>>

SpecMap == InitMap /\ [][call_pixel_to_point]_vars

\* ======================================================== properties: drivers
Width == args.bounds[1]
Height == args.bounds[2]

CeilDiv(a, b) == (a + b - 1) \div b

\* The byte for a plane point: 255 - escape count, 0 when it does not escape.
PointByte(point) ==
  IF EscapeOf(point) = None THEN 0 ELSE LIMIT_OF_ITERATION - EscapeOf(point).val

\* The image of the sequential renderer: pixel (column, row) of the whole
\* image, mapped against the whole bounds and rectangle, at row * width + column.
SequentialImage(bounds, upper_left, lower_right) ==
  [k \in 1..(bounds[1] * bounds[2]) |->
     PointByte(pixel_to_point(bounds,
                              <<(k - 1) % bounds[1], (k - 1) \div bounds[1]>>,
                              upper_left, lower_right))]

ParallelRun == pc \in {"scope", "write", "done", "panicked"} /\ args.heuristics
SequentialRun == pc \in {"render", "write", "done", "panicked"} /\ ~args.heuristics
AllReturned == \A t \in DOMAIN frames : frames[t].status = "returned"

\* C1 (as claimed): once every band has finished, the buffer run_parallelly
\* filled equals, byte for byte, the buffer run_sequentially fills from the
\* same bounds and rectangle, whatever the order the bands ran in.
C1_ParallelEqualsSequential ==
  (pc \in {"write", "done"} /\ args.heuristics)
    => pixels = SequentialImage(args.bounds, args.rect.upper_left, args.rect.lower_right)

\* Slice indices a band has written, as buffer indices (0-based).
BufferIndicesWritten(t) == {frames[t].off + frames[t].log[j] : j \in DOMAIN frames[t].log}

\* C2: the bands handed to the spawned closures are pairwise disjoint, every
\* buffer index 0..width*height-1 lies in exactly one band, band i starts at
\* row rows_per_band * i, no band writes outside its own slice, nothing in
\* render or the driver panics, and once all bands returned every index (so
\* every row) has been written exactly once.
C2_BandsPartitionBuffer ==
  ParallelRun =>
    /\ \A s, t \in DOMAIN frames :
         s # t => \/ frames[s].off + frames[s].len <= frames[t].off
                  \/ frames[t].off + frames[t].len <= frames[s].off
    /\ \A k \in 0..((Width * Height) - 1) :
         Cardinality({t \in DOMAIN frames :
                        frames[t].off <= k /\ k < frames[t].off + frames[t].len}) = 1
    /\ \A t \in DOMAIN frames :
         /\ frames[t].top = ((Height \div 8) + 1) * (t - 1)
         /\ frames[t].off = frames[t].top * Width
         /\ frames[t].len > 0
         /\ \A j \in DOMAIN frames[t].log : frames[t].log[j] \in 0..(frames[t].len - 1)
         /\ frames[t].cause \notin {"assert", "index"}
    /\ \A k \in DOMAIN pixels :
         pixels[k] # 0 => \E t \in DOMAIN frames : (k - 1) \in BufferIndicesWritten(t)
    /\ pc = "panicked" => \E t \in DOMAIN frames : frames[t].cause = "fault"
    /\ AllReturned =>
         \A k \in 0..((Width * Height) - 1) :
           Cardinality({<<t, j>> \in (DOMAIN frames) \X (1..(Width * Height)) :
                          /\ j \in DOMAIN frames[t].log
                          /\ frames[t].off + frames[t].log[j] = k}) = 1

\* C2 witness: a parallel run over more rows than threads, not a multiple of
\* the thread count, has written its image.
C2_Witness ==
  /\ pc = "done"
  /\ args.heuristics
  /\ Height > threads
  /\ Height % threads # 0
  /\ Width > 1

BandRows(t) == frames[t].len \div Width

\* C3 (as claimed): the buffer is cut into thread_count (8) row-bands, each
\* ceil(height / thread_count) rows high except possibly the last, shorter one.
C3_EightBandsOfCeilRows ==
  (pc = "scope") =>
    /\ Len(frames) = threads
    /\ \A t \in DOMAIN frames :
         IF t < Len(frames) THEN BandRows(t) = CeilDiv(Height, threads)
         ELSE BandRows(t) <= CeilDiv(Height, threads)

\* C3 (amended): the buffer is cut into ceil(height / rows_per_band) row-bands,
\* at most thread_count, with rows_per_band = floor(height / thread_count) + 1;
\* every band but the last has rows_per_band rows and the last has the rows
\* that remain (1..rows_per_band). rows_per_band is ceil(height / thread_count)
\* when thread_count does not divide height and one more when it does.
C3_BandsOfFloorPlusOneRows ==
  (pc = "scope") =>
    /\ Len(frames) = CeilDiv(Height, (Height \div 8) + 1)
    /\ Len(frames) <= 8
    /\ \A t \in DOMAIN frames :
         /\ frames[t].bounds = <<Width, BandRows(t)>>
         /\ IF t < Len(frames) THEN BandRows(t) = (Height \div 8) + 1
            ELSE /\ BandRows(t) = Height - (((Height \div 8) + 1) * (t - 1))
                 /\ BandRows(t) \in 1..((Height \div 8) + 1)
    /\ (Height \div 8) + 1 =
         IF Height % 8 = 0 THEN CeilDiv(Height, 8) + 1 ELSE CeilDiv(Height, 8)

\* C3 witness: the bands of an image whose height is a multiple of the thread
\* count have been handed out.
C3_Witness == pc = "scope" /\ args.heuristics /\ Height % threads = 0

\* C6: write_image runs only after every spawned band computation returned,
\* and never in a run in which a band panicked: the join turns the failure
\* into a panic of the driver, and no partly rendered buffer is written.
C6_WriteOnlyAfterAllBandsReturned ==
  ParallelRun =>
    /\ (pc \in {"write", "done"} \/ file # NoFile) => AllReturned
    /\ (\E t \in DOMAIN frames : frames[t].status = "panicked")
         => (file = NoFile /\ pc \in {"scope", "panicked"})
    /\ pc = "panicked" => file = NoFile
    /\ file # NoFile => (pc = "done" /\ file.pixels = pixels)

\* C6 witness: a band panicked after another band had rendered its rows, the
\* join has propagated the failure and nothing was written.
C6_Witness ==
  /\ pc = "panicked"
  /\ args.heuristics
  /\ file = NoFile
  /\ \E s, t \in DOMAIN frames :
       /\ frames[s].status = "panicked"
       /\ frames[t].status = "returned"
       /\ \E k \in DOMAIN pixels : pixels[k] # 0

\* ========================================================= properties: render
\* The one call of render of SpecRender.
Call == frames[1]

\* C7: when render returns on a buffer of length width*height, every index
\* row*width+column has been written exactly once, in row-major order, with
\* 255 - escape count of the pixel's plane point when that point escapes
\* within the limit 255 and with 0 when it does not; the buffer keeps its
\* length and nothing else changes.
C7_RenderWritesEveryPixelOnce ==
  (pc = "unit" /\ frames # <<>> /\ Call.status = "returned"
     /\ Call.len = Call.bounds[1] * Call.bounds[2]) =>
    /\ Len(Call.log) = Call.bounds[1] * Call.bounds[2]
    /\ \A row \in 0..(Call.bounds[2] - 1), column \in 0..(Call.bounds[1] - 1) :
         /\ Call.log[(row * Call.bounds[1]) + column + 1] = (row * Call.bounds[1]) + column
         /\ pixels[(row * Call.bounds[1]) + column + 1] =
              PointByte(pixel_to_point(Call.bounds, <<column, row>>,
                                       Call.upper_left, Call.lower_right))
    /\ Len(pixels) = Call.len
    /\ args = NoArgs /\ file = NoFile /\ probe.fn = "render"

\* C7 witness: render has returned from an image of several rows and columns
\* that holds both escaping and non-escaping points, over a buffer that held
\* other bytes.
C7_Witness ==
  /\ pc = "unit" /\ frames # <<>> /\ Call.status = "returned"
  /\ Call.bounds[1] > 1 /\ Call.bounds[2] > 2
  /\ probe.before[1] = 255
  /\ \E j, k \in DOMAIN pixels : pixels[j] = 0 /\ pixels[k] \in 1..254

\* C8: called with a buffer whose length differs from width*height, render
\* panics on its assertion before it writes any pixel: it never returns and
\* the buffer is as it was.
C8_LengthMismatchPanicsBeforeAnyWrite ==
  (pc = "unit" /\ frames # <<>> /\ Call.len # Call.bounds[1] * Call.bounds[2]) =>
    /\ pixels = probe.before
    /\ Call.log = <<>>
    /\ counts = {}
    /\ Call.status \in {"called", "panicked"}
    /\ Call.status = "panicked" => Call.cause = "assert"

\* C8 witness: render has panicked on a non-empty buffer longer than the
\* image, whose first rows it could have written.
C8_Witness ==
  /\ pc = "unit" /\ frames # <<>>
  /\ Call.status = "panicked" /\ Call.cause = "assert"
  /\ Call.bounds[1] > 0 /\ Call.bounds[2] > 0
  /\ Call.len > Call.bounds[1] * Call.bounds[2]

\* C10: every escape count render receives from escape_time(point, 255) lies
\* in 1..254, so 255 - count lies in 1..254 and its conversion to a byte does
\* not wrap; a rendered pixel is 0 exactly when its point did not escape, and
\* no rendered pixel is 255.
C10_EscapeCountsFitAByte ==
  (pc = "unit" /\ frames # <<>>) =>
    /\ \A r \in counts :
         r # None => /\ r.val \in 1..254
                     /\ (LIMIT_OF_ITERATION - r.val) \in 1..254
                     /\ AsU8(LIMIT_OF_ITERATION - r.val) = LIMIT_OF_ITERATION - r.val
    /\ \A j \in DOMAIN Call.log :
         /\ pixels[Call.log[j] + 1] \in 0..254
         /\ (pixels[Call.log[j] + 1] = 0) <=>
              (escape_time(pixel_to_point(Call.bounds,
                             <<Call.log[j] % Call.bounds[1], Call.log[j] \div Call.bounds[1]>>,
                             Call.upper_left, Call.lower_right),
                           LIMIT_OF_ITERATION) = None)

\* C10 witness: render has returned having received both an escape count and
\* the no-escape result.
C10_Witness ==
  /\ pc = "unit" /\ frames # <<>> /\ Call.status = "returned"
  /\ None \in counts
  /\ \E r \in counts : r # None /\ r.val > 1

\* ==================================================== properties: escape_time
FivePlusFiveI == Complex(5 * One, 5 * One)
EscapeCalled == probe.fn = "escape_time" /\ probe.ret # Pending

\* C4 (as claimed): for c = 5+5i and any limit large enough to detect the
\* escape, escape_time returns Some(0).
C4_FivePlusFiveIEscapesAtZero ==
  (EscapeCalled /\ probe.c = FivePlusFiveI /\ probe.limit >= 2) => probe.ret = Some(0)

\* C4 (amended): for c = 5+5i escape_time returns Some(1) for every limit of 2
\* or more (z_0 = 0 never exceeds the threshold; z_1 = c does), and None for a
\* limit of 0 or 1.
C4_FivePlusFiveIEscapesAtOne ==
  (EscapeCalled /\ probe.c = FivePlusFiveI) =>
    probe.ret = IF probe.limit >= 2 THEN Some(1) ELSE None

\* C4 witness: escape_time(5+5i, 255) has returned Some(1).
C4_Witness ==
  /\ EscapeCalled
  /\ probe.c = FivePlusFiveI
  /\ probe.limit = LIMIT_OF_ITERATION
  /\ probe.ret = Some(1)

\* z_k of the recurrence z_0 = 0, z_(k+1) = z_k^2 + c.
RECURSIVE ZAt(_, _)
ZAt(c, k) ==
  IF k = 0 THEN Complex(0, 0)
  ELSE ComplexAdd(ComplexMul(ZAt(c, k - 1), ZAt(c, k - 1)), c)

EscapedAt(c, k) == norm_sqr(ZAt(c, k)) > 4 * One

\* C5: escape_time(c, N) returns Some(i) exactly when i is the least index in
\* 0..N-1 with |z_i|^2 > 4, and returns there without iterating further (its
\* loop variable z is still z_i); it returns None exactly when no index in
\* 0..N-1 has |z_i|^2 > 4; for c = 0 the result is None for every positive N.
C5_SomeLeastEscapeIndexElseNone ==
  EscapeCalled =>
    /\ probe.limit <= MaxLimit =>
         /\ probe.ret \in {None} \cup {Some(n) : n \in 0..(probe.limit - 1)}
         /\ probe.ret # None =>
              /\ EscapedAt(probe.c, probe.ret.val)
              /\ \A j \in 0..(probe.ret.val - 1) : ~EscapedAt(probe.c, j)
              /\ probe.i = probe.ret.val
              /\ probe.z = ZAt(probe.c, probe.ret.val)
         /\ probe.ret = None => \A j \in 0..(probe.limit - 1) : ~EscapedAt(probe.c, j)
    /\ (probe.c = Complex(0, 0) /\ probe.limit >= 1) => probe.ret = None

\* C5 witness: a point has escaped at an index above 1, under a limit that
\* left room for more iterations.
C5_Witness ==
  /\ EscapeCalled
  /\ probe.ret # None
  /\ probe.ret.val >= 3
  /\ probe.limit > probe.ret.val + 1
  /\ probe.limit <= MaxLimit

\* ================================================= properties: pixel_to_point
MapCalled == probe.fn = "pixel_to_point" /\ probe.ret # Pending

\* The closed form as exact rationals, in grid units: re = ReNum / bounds.0 and
\* im = ImNum / bounds.1.
ReNum ==
  (probe.upper_left.re * probe.bounds[1])
    + (probe.pixel[1] * (probe.lower_right.re - probe.upper_left.re))
ImNum ==
  (probe.upper_left.im * probe.bounds[2])
    - (probe.pixel[2] * (probe.upper_left.im - probe.lower_right.im))

\* The closed form evaluated in floating point as it is written, the product
\* before the quotient.
ReAsWritten ==
  FAdd(probe.upper_left.re,
       FDiv(FMul(AsF64(probe.pixel[1]), FSub(probe.lower_right.re, probe.upper_left.re)),
            AsF64(probe.bounds[1])))
ImAsWritten ==
  FSub(probe.upper_left.im,
       FDiv(FMul(AsF64(probe.pixel[2]), FSub(probe.upper_left.im, probe.lower_right.im)),
            AsF64(probe.bounds[2])))

Representable(num, den) == Round(num, den) * den = num

====
